---- MODULE Spec2Model ----
(***************************************************************************)
(* A model of the MTL458 shell (src/2022MT11956.c): the read loop, the     *)
(* history buffer, the separator splitter, the sequencer over `;` and      *)
(* `&&`, the redirection parser, the command executor and the two-process  *)
(* pipeline executor.                                                      *)
(*                                                                         *)
(* A C string is a sequence of one-character strings.  Array indices are   *)
(* 0-based in the code and in the variable i; sequences are 1-based, so    *)
(* pieces[i] of the code is pieces[i + 1] here.                            *)
(***************************************************************************)
EXTENDS Integers, Sequences, FiniteSets, TLC

\* ------------------------------------------------------------------------
\* Program constants
\* ------------------------------------------------------------------------
\* MAXARGS is 100 in the source (line 35); the model scales it down so that a
\* short line reaches the cap of the tokenizer and of the expander.  No
\* segment of the interpreter's inputs below has that many tokens.
MAXARGS == 6

\* HISTORY_MAX is 2048 in the source (line 36); the model scales it down so
\* that a handful of lines fills the buffer and an eviction happens.
HISTORY_MAX == 2

\* ------------------------------------------------------------------------
\* Bounds of the model
\* ------------------------------------------------------------------------
\* segments per line in the sequencer inputs
MaxSegs == 4
\* lines on standard input in the history inputs
MaxLines == 3

\* ------------------------------------------------------------------------
\* Characters and strings
\* ------------------------------------------------------------------------
SP == " "
QUOTE == "\""

\* isspace(3) over the characters the inputs use
WHITESPACE == {" ", "\t", "\n"}
isspace(c) == c \in WHITESPACE

Last(s) == s[Len(s)]

\* first position q in p..Len(s) with s[q] in stops; Len(s) + 1 when none
RECURSIVE ScanTo(_, _, _)
ScanTo(s, p, stops) ==
    IF p > Len(s) THEN Len(s) + 1
    ELSE IF s[p] \in stops THEN p
    ELSE ScanTo(s, p + 1, stops)

\* first position q in p..Len(s) with s[q] not whitespace; Len(s) + 1 when none
RECURSIVE SkipSpaces(_, _)
SkipSpaces(s, p) ==
    IF p > Len(s) THEN Len(s) + 1
    ELSE IF ~isspace(s[p]) THEN p
    ELSE SkipSpaces(s, p + 1)

\* number of leading whitespace characters: how far trim() advances s
LeadingSpaces(s) == SkipSpaces(s, 1) - 1

RECURSIVE DropTrailingSpaces(_)
DropTrailingSpaces(s) ==
    IF Len(s) > 1 /\ isspace(Last(s)) THEN DropTrailingSpaces(SubSeq(s, 1, Len(s) - 1))
    ELSE s

\* trim(): skip leading whitespace; an all-blank string gives ""; otherwise
\* cut after the last non-blank character
trim(s) ==
    LET t == SubSeq(s, LeadingSpaces(s) + 1, Len(s))
    IN  IF t = <<>> THEN <<>> ELSE DropTrailingSpaces(t)

\* ------------------------------------------------------------------------
\* tokenize_args: whitespace-separated tokens; a token that STARTS with a
\* double quote runs to the next double quote (or the end of the line) and
\* loses the quotes; a quote in the middle of a token is an ordinary
\* character.  Stops after MAXARGS tokens.
\* ------------------------------------------------------------------------
RECURSIVE TokenizeFrom(_, _, _)
TokenizeFrom(line, p0, argv) ==
    LET p == SkipSpaces(line, p0)
    IN  IF p > Len(line) THEN argv
        ELSE LET quoted == line[p] = QUOTE
                 start  == IF quoted THEN p + 1 ELSE p
                 stop   == IF quoted THEN ScanTo(line, start, {QUOTE})
                           ELSE ScanTo(line, start, WHITESPACE)
                 next   == IF quoted /\ stop <= Len(line) THEN stop + 1 ELSE stop
                 out    == Append(argv, SubSeq(line, start, stop - 1))
             IN  IF Len(out) >= MAXARGS THEN out
                 ELSE TokenizeFrom(line, next, out)

tokenize_args(line) == TokenizeFrom(line, 1, <<>>)

\* ------------------------------------------------------------------------
\* glob(3) against the working directory.  Directory is the directory
\* listing in sorted order; a pattern character is `*` (any run of
\* characters), `?` (any one character), `[` opening a class of characters
\* closed by `]`, or a literal.
\* ------------------------------------------------------------------------
Directory == << <<"f">>, <<"g">>, <<"h">> >>

\* the `]` that closes the class opened at pat[1]; Len(pat) + 1 when none
ClassEnd(pat) == ScanTo(pat, 3, {"]"})

RECURSIVE fnmatch(_, _)
fnmatch(pat, name) ==
    IF pat = <<>> THEN name = <<>>
    ELSE IF Head(pat) = "*"
         THEN \/ fnmatch(Tail(pat), name)
              \/ name # <<>> /\ fnmatch(pat, Tail(name))
    ELSE IF name = <<>> THEN FALSE
    ELSE IF Head(pat) = "?" THEN fnmatch(Tail(pat), Tail(name))
    ELSE IF Head(pat) = "[" /\ ClassEnd(pat) <= Len(pat)
         THEN /\ Head(name) \in {pat[k] : k \in 2..(ClassEnd(pat) - 1)}
              /\ fnmatch(SubSeq(pat, ClassEnd(pat) + 1, Len(pat)), Tail(name))
    ELSE Head(pat) = Head(name) /\ fnmatch(Tail(pat), Tail(name))

\* gl_pathv: the matching names, sorted
glob(pat) == SelectSeq(Directory, LAMBDA name : fnmatch(pat, name))

strchr(s, c) == \E k \in 1..Len(s) : s[k] = c

\* an expander that drops a pattern nothing matches
RECURSIVE ExpandFrom_DropUnmatched(_, _, _)
ExpandFrom_DropUnmatched(argv, k, out) ==
    IF k > Len(argv) THEN out
    ELSE LET tok  == argv[k]
             meta == strchr(tok, "*") \/ strchr(tok, "?") \/ strchr(tok, "[")
             o2   == IF meta THEN out \o glob(tok) ELSE Append(out, tok)
         IN  IF Len(o2) >= MAXARGS THEN o2
             ELSE ExpandFrom_DropUnmatched(argv, k + 1, o2)

\* expand_wildcards: a token with a metacharacter becomes its matches, or
\* stays as it is when nothing matches; the loop stops once outc >= MAXARGS
RECURSIVE ExpandFrom(_, _, _)
ExpandFrom(argv, k, out) ==
    IF k > Len(argv) THEN out
    ELSE LET tok  == argv[k]
             meta == strchr(tok, "*") \/ strchr(tok, "?") \/ strchr(tok, "[")
             res  == IF meta THEN glob(tok) ELSE <<>>
             o2   == IF meta /\ res # <<>> THEN out \o res ELSE Append(out, tok)
         IN  IF Len(o2) >= MAXARGS THEN o2 ELSE ExpandFrom(argv, k + 1, o2)

expand_wildcards(argv) == ExpandFrom(argv, 1, <<>>)

\* ------------------------------------------------------------------------
\* parse_redirection_and_build_args.  okfiles is the set of file names that
\* open(2) can open in the current file system; used is the set of
\* descriptors already open in the interpreter.  The result holds the
\* return code (0, -1 missing target, -2 open failure), the values left in
\* *in_fd, *out_fd and *append_flag, the argument vector (on success) and
\* opened: every descriptor the parser opened, in order.  No path of the
\* function closes a descriptor.
\* ------------------------------------------------------------------------
LT == <<"<">>
GT == <<">">>
GTGT == <<">", ">">>

\* open(2) hands out the lowest descriptor that is not in use
LowestFree(used) ==
    CHOOSE n \in 3..(3 + Cardinality(used)) :
        /\ n \notin used
        /\ \A m \in 3..(n - 1) : m \in used

RECURSIVE ParseFrom(_, _, _, _, _)
ParseFrom(argv_tmp, i, okfiles, used, acc) ==
    IF i > Len(argv_tmp)
    THEN [acc EXCEPT !.rc = 0, !.argv = expand_wildcards(acc.final_args)]
    ELSE IF argv_tmp[i] \in {LT, GT, GTGT}
    THEN IF i + 1 > Len(argv_tmp) THEN [acc EXCEPT !.rc = -1]
         ELSE IF argv_tmp[i + 1] \notin okfiles THEN [acc EXCEPT !.rc = -2]
         ELSE LET fd == LowestFree(used \cup {acc.opened[k] : k \in 1..Len(acc.opened)})
                  a2 == IF argv_tmp[i] = LT
                        THEN [acc EXCEPT !.in_fd = fd, !.opened = Append(@, fd)]
                        ELSE [acc EXCEPT !.out_fd = fd,
                                         !.append_flag = (argv_tmp[i] = GTGT),
                                         !.opened = Append(@, fd)]
              IN  ParseFrom(argv_tmp, i + 2, okfiles, used, a2)
    ELSE ParseFrom(argv_tmp, i + 1, okfiles, used,
                   [acc EXCEPT !.final_args = Append(@, argv_tmp[i])])

parse_redirection_and_build_args(cmd, okfiles, used) ==
    ParseFrom(tokenize_args(cmd), 1, okfiles, used,
              [rc |-> 0, argv |-> <<>>, final_args |-> <<>>, in_fd |-> -1,
               out_fd |-> -1, append_flag |-> FALSE, opened |-> <<>>])

\* the file names a segment names as redirection targets
Targets(cmd) ==
    LET tk == tokenize_args(cmd)
    IN  {tk[k + 1] : k \in {j \in 1..(Len(tk) - 1) : tk[j] \in {LT, GT, GTGT}}}

\* ------------------------------------------------------------------------
\* split_by_separators: cut the line at every `;` and every `&&`, wherever
\* they stand.  cmds and types are the arrays the function returns
\* (types[k] = 1 when `&&` follows piece k, 0 for `;` and for the last
\* piece); cuts records the positions in the line at which a separator was
\* found.  Text after the last separator is a piece only when something
\* other than whitespace is left.
\* ------------------------------------------------------------------------
IsSepAt(line, p) ==
    \/ line[p] = ";"
    \/ line[p] = "&" /\ p + 1 <= Len(line) /\ line[p + 1] = "&"

RECURSIVE NextSep(_, _)
NextSep(line, p) ==
    IF p > Len(line) THEN 0
    ELSE IF IsSepAt(line, p) THEN p
    ELSE NextSep(line, p + 1)

RECURSIVE SplitFrom(_, _, _)
SplitFrom(line, s, acc) ==
    IF s > Len(line) THEN acc
    ELSE LET next_sep == NextSep(line, s)
         IN  IF next_sep # 0
             THEN LET sep_type == IF line[next_sep] = ";" THEN 0 ELSE 1
                      piece == SubSeq(line, s, next_sep - 1)
                      after == IF sep_type = 1 THEN next_sep + 2 ELSE next_sep + 1
                  IN  SplitFrom(line, SkipSpaces(line, after),
                                [cmds  |-> Append(acc.cmds, trim(piece)),
                                 types |-> Append(acc.types, sep_type),
                                 cuts  |-> acc.cuts \cup {next_sep}])
             ELSE [acc EXCEPT !.cmds  = Append(@, trim(SubSeq(line, s, Len(line)))),
                              !.types = Append(@, 0)]

split_by_separators(line) ==
    SplitFrom(line, 1, [cmds |-> <<>>, types |-> <<>>, cuts |-> {}])

\* ------------------------------------------------------------------------
\* History
\* ------------------------------------------------------------------------
\* add_history: nothing for an empty line; a full buffer first loses
\* history[0] (memmove of the rest one slot down)
\* a buffer that, when full, overwrites its newest entry
add_history_EvictNewest(hist, line) ==
    IF line = <<>> THEN hist
    ELSE IF Len(hist) = HISTORY_MAX THEN Append(SubSeq(hist, 1, Len(hist) - 1), line)
    ELSE Append(hist, line)

add_history(hist, line) ==
    IF line = <<>> THEN hist
    ELSE IF Len(hist) = HISTORY_MAX THEN Append(Tail(hist), line)
    ELSE Append(hist, line)

\* a listing that starts one entry late
do_history_OffByOne(hist, n) ==
    IF n <= 0 \/ n > Len(hist) THEN hist
    ELSE SubSeq(hist, Len(hist) - n + 2, Len(hist))

\* do_history: what it prints, one entry per line
do_history(hist, n) ==
    IF n <= 0 \/ n > Len(hist) THEN hist
    ELSE LET start == IF Len(hist) - n < 0 THEN 0 ELSE Len(hist) - n
         IN  SubSeq(hist, start + 1, Len(hist))

\* atoi(3): optional blanks, optional sign, then decimal digits up to the
\* first character that is not a digit
Digits == <<"0", "1", "2", "3", "4", "5", "6", "7", "8", "9">>
IsDigit(c) == \E d \in 1..10 : Digits[d] = c
DigitVal(c) == (CHOOSE d \in 1..10 : Digits[d] = c) - 1

RECURSIVE AtoiFrom(_, _, _)
AtoiFrom(s, p, acc) ==
    IF p > Len(s) \/ ~IsDigit(s[p]) THEN acc
    ELSE AtoiFrom(s, p + 1, acc * 10 + DigitVal(s[p]))

atoi(s) ==
    LET p == SkipSpaces(s, 1)
    IN  IF p > Len(s) THEN 0
        ELSE IF s[p] = "-" THEN 0 - AtoiFrom(s, p + 1, 0)
        ELSE IF s[p] = "+" THEN AtoiFrom(s, p + 1, 0)
        ELSE AtoiFrom(s, p, 0)

\* ------------------------------------------------------------------------
\* Standard input: the lines the user submits.  A segment text is one of a
\* few commands; a line joins segment texts with separators.
\* ------------------------------------------------------------------------
T_a       == <<"a">>
T_b       == <<"b">>
T_empty   == <<>>
T_pipe    == <<"a", " ", "|", " ", "b">>
T_in      == <<"a", " ", "<", " ", "f">>
T_in_out  == <<"a", " ", "<", " ", "f", " ", ">", " ", "g">>
T_notgt   == <<"a", " ", ">">>
T_onlyin  == <<"<", " ", "f">>
T_pipe_ns == <<"a", "|", "b">>
T_pipe_gt == <<"a", " ", ">", " ", "f", " ", "|", " ", "b">>
T_pipe_lt == <<"a", " ", "|", " ", "b", " ", "<", " ", "f">>
T_pipe_no == <<"a", " ", "<", " ", "|", " ", "b">>
T_pipe_gt_no == <<"a", " ", ">", " ", "f", " ", "|", " ", "b", " ", "<">>
T_quoted  == <<"a", " ", "\"", "x", ";", "y", "\"">>
T_quoted2 == <<"a", " ", "\"", "x", "&", "&", "y">>
T_quoted_pipe == <<"a", " ", "\"", "x", "|", "y", "\"">>
T_exit    == <<"e", "x", "i", "t">>
T_exit_in == <<"e", "x", "i", "t", " ", "<", " ", "f">>
T_cd      == <<"c", "d">>
T_cd_d    == <<"c", "d", " ", "d">>
T_history == <<"h", "i", "s", "t", "o", "r", "y">>
T_hist(d) == T_history \o <<" ">> \o d

SEMI   == <<" ", ";", " ">>
ANDAND == <<" ", "&", "&", " ">>
Seps   == {SEMI, ANDAND, <<";">>}

RECURSIVE Join(_, _, _)
Join(segs, seps, k) ==
    IF k > Len(segs) THEN <<>>
    ELSE IF k = Len(segs) THEN segs[k]
    ELSE segs[k] \o seps[k] \o Join(segs, seps, k + 1)

\* lines of up to MaxSegs segments, each a plain command or empty
SeqSegs == {T_a, T_empty}
SeqLines ==
    UNION { { Join(segs, seps, 1) : segs \in [1..n -> SeqSegs],
                                    seps \in [1..(n - 1) -> {SEMI, ANDAND}] }
            : n \in 1..MaxSegs }

\* one or two segments of every kind
AllSegs == {T_a, T_pipe, T_pipe_ns, T_in, T_in_out, T_notgt, T_onlyin, T_pipe_gt, T_pipe_lt,
            T_pipe_no, T_pipe_gt_no, T_quoted, T_quoted2, T_exit, T_exit_in, T_cd,
            T_cd_d, T_history}
PairLines ==
    AllSegs \cup { x \o sep \o y : x \in AllSegs, y \in {T_a, T_pipe, T_exit}, sep \in Seps }

\* several lines, for the history buffer
HistLines == {T_a, <<" ", "a", " ", ";", "b", " ">>, <<" ">>, T_history,
              T_hist(<<"1">>), T_hist(<<"2">>), T_hist(<<"-", "1">>)}
HistInputs == UNION { [1..n -> HistLines] : n \in 1..MaxLines }

\* a line with an exit segment, and a line after it
ExitInputs ==
    { <<x, T_a>> : x \in {T_exit, T_exit_in, T_a \o ANDAND \o T_exit,
                          T_a \o SEMI \o T_exit \o SEMI \o T_a} }

\* a `|` between double quotes, alone and after another segment
QuoteInputs == { <<T_quoted_pipe>>, <<T_a \o SEMI \o T_quoted_pipe>> }

Inputs ==
    { <<l>> : l \in SeqLines \cup PairLines } \cup HistInputs \cup ExitInputs
    \cup QuoteInputs

\* ------------------------------------------------------------------------
\* State
\* ------------------------------------------------------------------------
VARIABLES
    stdin,        \* the lines not yet read
    eof,          \* getchar() has returned EOF
    pc,           \* where the interpreter is
    line,         \* main: trimline
    pieces,       \* main: pieces[] of the current line
    sep_types,    \* main: sep_types[] of the current line
    cuts,         \* positions of the line at which split_by_separators cut
    i,            \* main: the for loop's index
    last_status,  \* main: last_status
    history,      \* history[0 .. hist_count-1]
    submitted,    \* every line read from standard input so far, as typed
    cwd,          \* the working directory chdir() set ("" = the initial one)
    open_fds,     \* descriptors open in the interpreter process
    pipefd,       \* execute_pipe: pipefd[0], pipefd[1] once pipe() succeeded
    procs,        \* child processes not yet waited for: [pid, st, w]
    seg,          \* what the processing of the current segment did so far
    log,          \* one entry per segment of the current line the loop reached
    call          \* a function applied on its own: its name, argument and result

vars == <<stdin, eof, pc, line, pieces, sep_types, cuts, i, last_status, history,
          submitted, cwd, open_fds, pipefd, procs, seg, log, call>>

NoStatus == [how |-> "none", code |-> 0]

NewSeg == [kind |-> "none", piped |-> FALSE, err |-> "none", msgs |-> 0,
           perrors |-> 0, spawned |-> 0, in_fd |-> -1, out_fd |-> -1,
           pid |-> 0, p1 |-> 0, p2 |-> 0, w1 |-> NoStatus, w2 |-> NoStatus,
           n |-> 0, out |-> <<>>, ret |-> 0, opened |-> {}, pipe |-> {}]

NoCall == [fn |-> "none", arg |-> <<>>, ret |-> <<>>, last |-> 0, done |-> FALSE]

Init ==
    /\ stdin \in Inputs
    /\ call = NoCall
    /\ eof = FALSE
    /\ pc = "read"
    /\ line = <<>>
    /\ pieces = <<>>
    /\ sep_types = <<>>
    /\ cuts = {}
    /\ i = 0
    /\ last_status = 0
    /\ history = <<>>
    /\ submitted = <<>>
    /\ cwd = <<>>
    /\ open_fds = {}
    /\ pipefd = <<>>
    /\ procs = {}
    /\ seg = NewSeg
    /\ log = <<>>

\* ------------------------------------------------------------------------
\* Processes
\* ------------------------------------------------------------------------
Range(s) == {s[k] : k \in 1..Len(s)}

\* what a child can do: run its program to an exit code, fail to exec it
\* (the child prints Invalid Command and calls _exit(127)), or be killed
EXEC_FAILED == 127
ChildOutcomes == {"exit0", "exit1", "noexec", "killed"}
WaitStatus(o) ==
    CASE o = "exit0"  -> [how |-> "exited", code |-> 0]
      [] o = "exit1"  -> [how |-> "exited", code |-> 1]
      [] o = "noexec" -> [how |-> "exited", code |-> EXEC_FAILED]
      [] o = "killed" -> [how |-> "signaled", code |-> 0]

\* a parent that takes the exit code field whatever ended the child
StatusOf_RawCode(w) == w.code

\* WIFEXITED(status) ? WEXITSTATUS(status) : 1
StatusOf(w) == IF w.how = "exited" THEN w.code ELSE 1

NewPid == CHOOSE n \in 1..(Cardinality(procs) + 1) : \A p \in procs : p.pid # n
Proc(pid) == CHOOSE p \in procs : p.pid = pid
Terminated(pid) == \E p \in procs : p.pid = pid /\ p.st = "zombie"

\* a child terminates; the parent has not waited for it yet
ChildExit ==
    \E p \in procs, o \in ChildOutcomes :
        /\ p.st = "running"
        /\ procs' = (procs \ {p}) \cup {[p EXCEPT !.st = "zombie", !.w = WaitStatus(o)]}
        /\ seg' = IF o = "noexec" THEN [seg EXCEPT !.msgs = @ + 1] ELSE seg
        /\ UNCHANGED <<call, stdin, eof, pc, line, pieces, sep_types, cuts, i, last_status,
                       history, submitted, cwd, open_fds, pipefd, log>>

\* ------------------------------------------------------------------------
\* main: read a line, record it, split it
\* ------------------------------------------------------------------------
\* read_line_with_tab: the next line, or the empty buffer at end of input;
\* the result of strdup is never NULL
read_line_with_tab(in) == IF in = <<>> THEN <<>> ELSE Head(in)

ReadLine ==
    /\ pc = "read"
    /\ LET trimline == trim(read_line_with_tab(stdin))
           sp == split_by_separators(trimline)
       IN  /\ stdin' = IF stdin = <<>> THEN stdin ELSE Tail(stdin)
           /\ eof' = (eof \/ stdin = <<>>)
           /\ submitted' = IF stdin = <<>> THEN submitted ELSE Append(submitted, Head(stdin))
           /\ IF trimline = <<>>
              THEN UNCHANGED <<pc, line, pieces, sep_types, cuts, i, last_status,
                               history, log>>
              ELSE /\ history' = add_history(history, trimline)
                   /\ line' = trimline
                   /\ pieces' = sp.cmds
                   /\ sep_types' = sp.types
                   /\ cuts' = sp.cuts
                   /\ i' = 0
                   /\ last_status' = 0
                   /\ log' = <<>>
                   /\ pc' = "loop"
    /\ UNCHANGED <<call, cwd, open_fds, pipefd, procs, seg>>

\* ------------------------------------------------------------------------
\* main: the sequencer
\* ------------------------------------------------------------------------
piece_count == Len(pieces)
piece == pieces[i + 1]

\* an empty piece: last_status = 0; continue
EmptyPiece ==
    /\ pc = "loop" /\ i < piece_count /\ piece = <<>>
    /\ last_status' = 0
    /\ i' = i + 1
    /\ log' = Append(log, [idx |-> i, status |-> 0, seg |-> [NewSeg EXCEPT !.kind = "empty"]])
    /\ UNCHANGED <<call, stdin, eof, pc, line, pieces, sep_types, cuts, history, submitted,
                   cwd, open_fds, pipefd, procs, seg>>

\* the loop is over: free_split, free(line), back to the prompt
EndLine ==
    /\ pc = "loop" /\ i >= piece_count
    /\ pc' = "read"
    /\ line' = <<>> /\ pieces' = <<>> /\ sep_types' = <<>> /\ cuts' = {}
    /\ i' = 0 /\ last_status' = 0 /\ log' = <<>> /\ seg' = NewSeg
    /\ UNCHANGED <<call, stdin, eof, history, submitted, cwd, open_fds, pipefd, procs>>

\* lines 570-578: after a failure followed by `&&`, skip the next piece and
\* every piece after it that is itself followed by `&&`; k is the index the
\* loop's ++i then moves on from
\* a sequencer that stops skipping after one piece
SkipChain_OnePiece(k, types) == k

RECURSIVE SkipChain(_, _)
SkipChain(k, types) ==
    IF k < Len(types) - 1 /\ types[k + 1] = 1 THEN SkipChain(k + 1, types) ELSE k

\* a sequencer that never skips
NextIndex_NeverSkip(k, types, status) == k + 1

\* a sequencer that skips after any failure, whatever the separator
NextIndex_AnySeparator(k, types, status) ==
    IF k < Len(types) - 1 /\ status # 0
    THEN SkipChain(k + 1, types) + 1
    ELSE k + 1

NextIndex(k, types, status) ==
    IF k < Len(types) - 1 /\ types[k + 1] = 1 /\ status # 0
    THEN SkipChain(k + 1, types) + 1
    ELSE k + 1

\* process_piece has returned: apply the skip rule and ++i
AfterPiece ==
    /\ pc = "after"
    /\ i' = NextIndex(i, sep_types, last_status)
    /\ pc' = "loop"
    /\ UNCHANGED <<call, stdin, eof, line, pieces, sep_types, cuts, last_status, history,
                   submitted, cwd, open_fds, pipefd, procs, seg, log>>

\* process_piece returns status st, having done s
Return(st, s) ==
    /\ last_status' = st
    /\ seg' = s
    /\ log' = Append(log, [idx |-> i, status |-> st, seg |-> s])
    /\ pc' = "after"

\* ------------------------------------------------------------------------
\* process_piece, no pipe: parse the redirections, run the command
\* ------------------------------------------------------------------------
\* a loop without the strlen(pieces[i]) == 0 test
AtPiece_IgnoresEmpty == pc = "loop" /\ i < piece_count

\* lines 554-562: a non-empty piece is handed to process_piece
AtPiece == pc = "loop" /\ i < piece_count /\ piece # <<>>

\* strchr(piece, '|'): the first `|`, wherever it stands
pipe_pos == ScanTo(piece, 1, {"|"})
HasPipe == pipe_pos <= Len(piece)

ErrOf(rc) == IF rc = -1 THEN "syntax" ELSE "open"

\* lines 531-532: close in_fd and out_fd; the parser's other descriptors stay
AfterClose(r) == (open_fds \cup Range(r.opened)) \ {r.in_fd, r.out_fd}

Started(r, kind) ==
    [NewSeg EXCEPT !.kind = kind, !.in_fd = r.in_fd, !.out_fd = r.out_fd,
                   !.opened = Range(r.opened)]

\* pr == -1 or pr == -2: Invalid Command, return 1
ParseFail ==
    /\ AtPiece /\ ~HasPipe
    /\ \E okfiles \in SUBSET Targets(piece) :
        LET r == parse_redirection_and_build_args(piece, okfiles, open_fds)
        IN  /\ r.rc # 0
            /\ open_fds' = open_fds \cup Range(r.opened)
            /\ Return(1, [Started(r, "none") EXCEPT !.err = ErrOf(r.rc), !.msgs = 1])
    /\ UNCHANGED <<call, stdin, eof, line, pieces, sep_types, cuts, i, history, submitted,
                   cwd, pipefd, procs>>

\* execute_command with argc == 0: return 0
NoCommand ==
    /\ AtPiece /\ ~HasPipe
    /\ \E okfiles \in SUBSET Targets(piece) :
        LET r == parse_redirection_and_build_args(piece, okfiles, open_fds)
        IN  /\ r.rc = 0 /\ r.argv = <<>>
            /\ open_fds' = AfterClose(r)
            /\ Return(0, Started(r, "noop"))
    /\ UNCHANGED <<call, stdin, eof, line, pieces, sep_types, cuts, i, history, submitted,
                   cwd, pipefd, procs>>

\* the built-in cd: a missing argument or a failing chdir is Invalid Command
BuiltinCd ==
    /\ AtPiece /\ ~HasPipe
    /\ \E okfiles \in SUBSET Targets(piece), chdir_ok \in BOOLEAN :
        LET r == parse_redirection_and_build_args(piece, okfiles, open_fds)
        IN  /\ r.rc = 0 /\ r.argv # <<>> /\ r.argv[1] = T_cd
            /\ open_fds' = AfterClose(r)
            /\ IF Len(r.argv) < 2
               THEN /\ chdir_ok
                    /\ cwd' = cwd
                    /\ Return(1, [Started(r, "cd") EXCEPT !.msgs = 1])
               ELSE IF ~chdir_ok
               THEN /\ cwd' = cwd
                    /\ Return(1, [Started(r, "cd") EXCEPT !.perrors = 1])
               ELSE /\ cwd' = r.argv[2]
                    /\ Return(0, Started(r, "cd"))
    /\ UNCHANGED <<call, stdin, eof, line, pieces, sep_types, cuts, i, history, submitted,
                   pipefd, procs>>

\* the built-in history: do_history(0) without an argument, else
\* do_history(atoi(argv[1])); return 0
BuiltinHistory ==
    /\ AtPiece /\ ~HasPipe
    /\ \E okfiles \in SUBSET Targets(piece) :
        LET r == parse_redirection_and_build_args(piece, okfiles, open_fds)
            n == IF Len(r.argv) = 1 THEN 0 ELSE atoi(r.argv[2])
        IN  /\ r.rc = 0 /\ r.argv # <<>> /\ r.argv[1] = T_history
            /\ open_fds' = AfterClose(r)
            /\ Return(0, [Started(r, "history") EXCEPT
                              !.n = n, !.out = do_history(history, n)])
    /\ UNCHANGED <<call, stdin, eof, line, pieces, sep_types, cuts, i, history, submitted,
                   cwd, pipefd, procs>>

\* an exit that returns 0 to the sequencer like the other built-ins
BuiltinExit_Returns ==
    /\ AtPiece /\ ~HasPipe
    /\ \E okfiles \in SUBSET Targets(piece) :
        LET r == parse_redirection_and_build_args(piece, okfiles, open_fds)
        IN  /\ r.rc = 0 /\ r.argv # <<>> /\ r.argv[1] = T_exit
            /\ open_fds' = AfterClose(r)
            /\ Return(0, Started(r, "exit"))
    /\ UNCHANGED <<call, stdin, eof, line, pieces, sep_types, cuts, i, history,
                   submitted, cwd, pipefd, procs>>

\* the built-in exit: release the history entries and exit(0)
BuiltinExit ==
    /\ AtPiece /\ ~HasPipe
    /\ \E okfiles \in SUBSET Targets(piece) :
        LET r == parse_redirection_and_build_args(piece, okfiles, open_fds)
        IN  /\ r.rc = 0 /\ r.argv # <<>> /\ r.argv[1] = T_exit
            /\ open_fds' = open_fds \cup Range(r.opened)
            /\ seg' = Started(r, "exit")
    /\ history' = <<>>
    /\ pc' = "exited"
    /\ UNCHANGED <<call, stdin, eof, line, pieces, sep_types, cuts, i, last_status,
                   submitted, cwd, pipefd, procs, log>>

IsBuiltin(argv) == argv[1] \in {T_cd, T_history, T_exit}

\* an external command: fork; a failed fork is Invalid Command and status 1
ForkCommand ==
    /\ AtPiece /\ ~HasPipe
    /\ \E okfiles \in SUBSET Targets(piece), fork_ok \in BOOLEAN :
        LET r == parse_redirection_and_build_args(piece, okfiles, open_fds)
        IN  /\ r.rc = 0 /\ r.argv # <<>> /\ ~IsBuiltin(r.argv)
            /\ IF fork_ok
               THEN /\ procs' = procs \cup {[pid |-> NewPid, st |-> "running", w |-> NoStatus]}
                    /\ open_fds' = open_fds \cup Range(r.opened)
                    /\ seg' = [Started(r, "external") EXCEPT !.pid = NewPid, !.spawned = 1]
                    /\ pc' = "wait"
                    /\ UNCHANGED <<last_status, log>>
               ELSE /\ procs' = procs
                    /\ open_fds' = AfterClose(r)
                    /\ Return(1, [Started(r, "external") EXCEPT
                                      !.err = "spawn", !.perrors = 1])
    /\ UNCHANGED <<call, stdin, eof, line, pieces, sep_types, cuts, i, history, submitted,
                   cwd, pipefd>>

\* waitpid(pid): blocks until the child has terminated; then the exit code,
\* or 1 for a child that did not exit; then close in_fd and out_fd
WaitCommand ==
    /\ pc = "wait" /\ Terminated(seg.pid)
    /\ procs' = procs \ {Proc(seg.pid)}
    /\ open_fds' = open_fds \ {seg.in_fd, seg.out_fd}
    /\ Return(StatusOf(Proc(seg.pid).w), [seg EXCEPT !.w1 = Proc(seg.pid).w])
    /\ UNCHANGED <<call, stdin, eof, line, pieces, sep_types, cuts, i, history, submitted,
                   cwd, pipefd>>

\* ------------------------------------------------------------------------
\* process_piece, with a pipe: left and right of the first `|`
\* ------------------------------------------------------------------------
left_raw  == SubSeq(piece, 1, pipe_pos - 1)
right_raw == SubSeq(piece, pipe_pos + 1, Len(piece))
left  == trim(left_raw)
right == trim(right_raw)

ParseLeft(okfiles) == parse_redirection_and_build_args(left, okfiles, open_fds)
ParseRight(okfiles, l) ==
    parse_redirection_and_build_args(right, okfiles, open_fds \cup Range(l.opened))

PipedSeg == [NewSeg EXCEPT !.kind = "pipeline", !.piped = TRUE]

\* the piped branch has its status st and goes on to free(left); free(right)
Release(st, s) ==
    /\ seg' = [s EXCEPT !.ret = st]
    /\ pc' = "pfree"
    /\ UNCHANGED <<last_status, log>>

\* either half fails to parse: return 1 (lines 487-499 print nothing)
PipedParseFail ==
    /\ AtPiece /\ HasPipe
    /\ \E okfiles \in SUBSET (Targets(left) \cup Targets(right)) :
        LET l == ParseLeft(okfiles)
            r == ParseRight(okfiles, l)
        IN  \/ /\ l.rc # 0
               /\ open_fds' = open_fds \cup Range(l.opened)
               /\ Release(1, [PipedSeg EXCEPT !.err = ErrOf(l.rc),
                                               !.opened = Range(l.opened)])
            \/ /\ l.rc = 0 /\ r.rc # 0
               /\ open_fds' = open_fds \cup Range(l.opened) \cup Range(r.opened)
               /\ Release(1, [PipedSeg EXCEPT !.err = ErrOf(r.rc),
                                   !.opened = Range(l.opened) \cup Range(r.opened)])
    /\ UNCHANGED <<call, stdin, eof, line, pieces, sep_types, cuts, i, history, submitted,
                   cwd, pipefd, procs>>

\* a redirection on either side of the pipe: Invalid Command, return 1
PipedRedirection ==
    /\ AtPiece /\ HasPipe
    /\ \E okfiles \in SUBSET (Targets(left) \cup Targets(right)) :
        LET l == ParseLeft(okfiles)
            r == ParseRight(okfiles, l)
        IN  /\ l.rc = 0 /\ r.rc = 0
            /\ l.in_fd >= 0 \/ l.out_fd >= 0 \/ r.in_fd >= 0 \/ r.out_fd >= 0
            /\ open_fds' = open_fds \cup Range(l.opened) \cup Range(r.opened)
            /\ Release(1, [PipedSeg EXCEPT !.err = "combo", !.msgs = 1,
                                !.opened = Range(l.opened) \cup Range(r.opened)])
    /\ UNCHANGED <<call, stdin, eof, line, pieces, sep_types, cuts, i, history, submitted,
                   cwd, pipefd, procs>>

\* execute_pipe: pipe(pipefd); failure is Invalid Command and status 1
PipeCreate ==
    /\ AtPiece /\ HasPipe
    /\ LET l == ParseLeft({})
           r == ParseRight({}, l)
           rd == LowestFree(open_fds)
           wr == LowestFree(open_fds \cup {rd})
       IN  /\ l.rc = 0 /\ r.rc = 0
           /\ l.in_fd < 0 /\ l.out_fd < 0 /\ r.in_fd < 0 /\ r.out_fd < 0
           /\ \E pipe_ok \in BOOLEAN :
                IF pipe_ok
                THEN /\ pipefd' = <<rd, wr>>
                     /\ open_fds' = open_fds \cup {rd, wr}
                     /\ seg' = [PipedSeg EXCEPT !.pipe = {rd, wr}]
                     /\ pc' = "fork1"
                     /\ UNCHANGED <<last_status, log>>
                ELSE /\ UNCHANGED <<pipefd, open_fds>>
                     /\ Release(1, [PipedSeg EXCEPT !.err = "pipe", !.perrors = 1])
    /\ UNCHANGED <<call, stdin, eof, line, pieces, sep_types, cuts, i, history, submitted,
                   cwd, procs>>

\* p1 = fork(): the left child; on failure return 1 (pipefd stays open)
PipeFork1 ==
    /\ pc = "fork1"
    /\ \E fork_ok \in BOOLEAN :
        IF fork_ok
        THEN /\ procs' = procs \cup {[pid |-> NewPid, st |-> "running", w |-> NoStatus]}
             /\ seg' = [seg EXCEPT !.p1 = NewPid, !.spawned = @ + 1]
             /\ pc' = "fork2"
             /\ UNCHANGED <<last_status, log, pipefd>>
        ELSE /\ procs' = procs
             /\ pipefd' = <<>>
             /\ Release(1, [seg EXCEPT !.err = "spawn", !.perrors = @ + 1])
    /\ UNCHANGED <<call, stdin, eof, line, pieces, sep_types, cuts, i, history, submitted,
                   cwd, open_fds>>

\* p2 = fork(): the right child; on failure return 1 (p1 is not waited for,
\* pipefd stays open)
PipeFork2 ==
    /\ pc = "fork2"
    /\ \E fork_ok \in BOOLEAN :
        IF fork_ok
        THEN /\ procs' = procs \cup {[pid |-> NewPid, st |-> "running", w |-> NoStatus]}
             /\ seg' = [seg EXCEPT !.p2 = NewPid, !.spawned = @ + 1]
             /\ pc' = "pclose"
             /\ UNCHANGED <<last_status, log, pipefd>>
        ELSE /\ procs' = procs
             /\ pipefd' = <<>>
             /\ Release(1, [seg EXCEPT !.err = "spawn", !.perrors = @ + 1])
    /\ UNCHANGED <<call, stdin, eof, line, pieces, sep_types, cuts, i, history, submitted,
                   cwd, open_fds>>

\* a parent that goes on to wait with both ends of the pipe open
PipeClose_KeepsEnds ==
    /\ pc = "pclose"
    /\ pc' = "pwait1"
    /\ UNCHANGED <<call, stdin, eof, line, pieces, sep_types, cuts, i, last_status,
                   history, submitted, cwd, open_fds, pipefd, procs, seg, log>>

\* the parent closes both ends of the pipe
PipeClose ==
    /\ pc = "pclose"
    /\ open_fds' = open_fds \ Range(pipefd)
    /\ pipefd' = <<>>
    /\ pc' = "pwait1"
    /\ UNCHANGED <<call, stdin, eof, line, pieces, sep_types, cuts, i, last_status, history,
                   submitted, cwd, procs, seg, log>>

\* waitpid(p1, &status1, 0)
PipeWait1 ==
    /\ pc = "pwait1" /\ Terminated(seg.p1)
    /\ procs' = procs \ {Proc(seg.p1)}
    /\ seg' = [seg EXCEPT !.w1 = Proc(seg.p1).w]
    /\ pc' = "pwait2"
    /\ UNCHANGED <<call, stdin, eof, line, pieces, sep_types, cuts, i, last_status, history,
                   submitted, cwd, open_fds, pipefd, log>>

\* the status execute_pipe returns, from the two wait statuses
\* a pipeline that reports its left child
PipeStatus_Left(status1, status2) == StatusOf(status1)

PipeStatus(status1, status2) == StatusOf(status2)

\* waitpid(p2, &status2, 0); return the right child's status
PipeWait2 ==
    /\ pc = "pwait2" /\ Terminated(seg.p2)
    /\ procs' = procs \ {Proc(seg.p2)}
    /\ Release(PipeStatus(seg.w1, Proc(seg.p2).w), [seg EXCEPT !.w2 = Proc(seg.p2).w])
    /\ UNCHANGED <<call, stdin, eof, line, pieces, sep_types, cuts, i, history, submitted,
                   cwd, open_fds, pipefd>>

\* left = trim(left); right = trim(right) replace the pointers strndup and
\* strdup returned by pointers advanced past the leading whitespace.  With no
\* leading whitespace free(left); free(right) release the two buffers.  With
\* some, free() gets a pointer into the middle of a block: undefined
\* behaviour, which the C library either detects (abort) or does not.
FreeIsValid == LeadingSpaces(left_raw) = 0 /\ LeadingSpaces(right_raw) = 0

FreeHalves ==
    /\ pc = "pfree"
    /\ \E detected \in IF FreeIsValid THEN {FALSE} ELSE BOOLEAN :
        IF detected
        THEN /\ pc' = "aborted"
             /\ UNCHANGED <<last_status, seg, log>>
        ELSE Return(seg.ret, seg)
    /\ UNCHANGED <<call, stdin, eof, line, pieces, sep_types, cuts, i, history, submitted,
                   cwd, open_fds, pipefd, procs>>

\* ------------------------------------------------------------------------
\* The interpreter and its children
\* ------------------------------------------------------------------------
Next ==
    \/ ReadLine
    \/ EmptyPiece
    \/ EndLine
    \/ ParseFail
    \/ NoCommand
    \/ BuiltinCd
    \/ BuiltinHistory
    \/ BuiltinExit
    \/ ForkCommand
    \/ WaitCommand
    \/ PipedParseFail
    \/ PipedRedirection
    \/ PipeCreate
    \/ PipeFork1
    \/ PipeFork2
    \/ PipeClose
    \/ PipeWait1
    \/ PipeWait2
    \/ FreeHalves
    \/ AfterPiece
    \/ ChildExit

Spec == Init /\ [][Next]_vars

\* ------------------------------------------------------------------------
\* The pipe of the current pipeline.  Its write end is held by the parent
\* until it closes pipefd[1], and by the left child, as its standard output,
\* until that child terminates; the right child closes its copy before it
\* runs its program.  A read on the pipe returns end of file once nobody
\* holds the write end.
\* ------------------------------------------------------------------------
Running(pid) == \E p \in procs : p.pid = pid /\ p.st = "running"

WriteEndHolders ==
    (IF seg.pipe \cap open_fds # {} THEN {"parent"} ELSE {})
    \cup (IF Running(seg.p1) THEN {"left"} ELSE {})

EofVisible == WriteEndHolders = {}

\* the child pid terminates
ChildExitOf(pid) == ChildExit /\ Running(pid) /\ ~Running(pid)'

\* the left program terminates
LeftExit == seg.piped /\ ChildExitOf(seg.p1)

\* the right program terminates when its read returns end of file
RightExitAtEof == seg.piped /\ EofVisible /\ ChildExitOf(seg.p2)

\* one line of every kind of segment, and two pipelines in one line
LiveInputs ==
    { <<l>> : l \in AllSegs \cup {SEMI, T_pipe_ns \o SEMI \o T_pipe,
                                  T_pipe \o ANDAND \o T_pipe} }

LiveInit == Init /\ stdin \in LiveInputs

\* the parent runs when it can; the two programs of a pipeline behave as
\* above; nothing is assumed of any other child
LiveSpec ==
    /\ LiveInit /\ [][Next]_vars
    /\ WF_vars(PipeClose) /\ WF_vars(PipeWait1) /\ WF_vars(PipeWait2)
    /\ WF_vars(LeftExit) /\ WF_vars(RightExitAtEof)

TypeOK ==
    /\ pc \in {"read", "loop", "after", "wait", "fork1", "fork2", "pclose",
               "pwait1", "pwait2", "pfree", "exited", "aborted"}
    /\ eof \in BOOLEAN
    /\ i \in 0..Len(pieces)
    /\ Len(sep_types) = Len(pieces)
    /\ Len(history) <= HISTORY_MAX

\* ------------------------------------------------------------------------
\* tokenize_args and expand_wildcards applied on their own, to lines and
\* argument lists of every shape up to a length, and to ones at the cap
\* ------------------------------------------------------------------------
\* characters of the lines given to the tokenizer, and their greatest length
TokChars == {"a", SP, QUOTE}
MaxTokLine == 5

\* n tokens `a`, one space after each
RECURSIVE ManyTokens(_)
ManyTokens(n) == IF n = 0 THEN <<>> ELSE <<"a", SP>> \o ManyTokens(n - 1)

TokLines ==
    UNION { [1..n -> TokChars] : n \in 0..MaxTokLine }
    \cup {ManyTokens(MAXARGS - 1), ManyTokens(MAXARGS), ManyTokens(MAXARGS + 1)}

\* tokens of the argument lists given to the expander, and the greatest
\* number of them: no metacharacter, three matches, two, none, one
ArgTokens == {<<"a">>, <<"g">>, <<"*">>, <<"[", "f", "h", "]">>, <<"x", "*">>,
              <<"?", "*">>, <<"[", "g">>, <<"h", "*">>}
MaxArgList == 3

ArgLists ==
    UNION { [1..n -> ArgTokens] : n \in 0..MaxArgList }
    \cup { [k \in 1..n |-> <<"a">>] \o << <<"*">>, <<"z">> >>
           : n \in {MAXARGS - 4, MAXARGS - 3, MAXARGS - 2} }

\* the array the caller passes to tokenize_args: char *argv_tmp[MAXARGS]
ArgvTmpSlots == MAXARGS
\* the array expand_wildcards allocates: MAXARGS + 1 pointers
OutSlots == MAXARGS + 1

CallInit ==
    /\ call \in { [NoCall EXCEPT !.fn = "tokenize_args", !.arg = l] : l \in TokLines }
              \cup { [NoCall EXCEPT !.fn = "expand_wildcards", !.arg = a] : a \in ArgLists }
    /\ stdin = <<>>
    /\ eof = FALSE
    /\ pc = "read"
    /\ line = <<>>
    /\ pieces = <<>>
    /\ sep_types = <<>>
    /\ cuts = {}
    /\ i = 0
    /\ last_status = 0
    /\ history = <<>>
    /\ submitted = <<>>
    /\ cwd = <<>>
    /\ open_fds = {}
    /\ pipefd = <<>>
    /\ procs = {}
    /\ seg = NewSeg
    /\ log = <<>>

\* argc = tokenize_args(copy, argv_tmp): ret is argv_tmp[0 .. argc-1]; the
\* last store is argv[argc] = NULL, at index argc
Call_tokenize_args ==
    /\ call.fn = "tokenize_args" /\ ~call.done
    /\ call' = [call EXCEPT !.ret = tokenize_args(call.arg),
                            !.last = Len(tokenize_args(call.arg)),
                            !.done = TRUE]
    /\ UNCHANGED <<stdin, eof, pc, line, pieces, sep_types, cuts, i, last_status,
                   history, submitted, cwd, open_fds, pipefd, procs, seg, log>>

\* expanded = expand_wildcards(final_args, final_count, &expanded_count): ret
\* is out[0 .. outc-1]; the last store is out[outc] = NULL, at index outc
Call_expand_wildcards ==
    /\ call.fn = "expand_wildcards" /\ ~call.done
    /\ call' = [call EXCEPT !.ret = expand_wildcards(call.arg),
                            !.last = Len(expand_wildcards(call.arg)),
                            !.done = TRUE]
    /\ UNCHANGED <<stdin, eof, pc, line, pieces, sep_types, cuts, i, last_status,
                   history, submitted, cwd, open_fds, pipefd, procs, seg, log>>

CallNext ==
    \/ Call_tokenize_args
    \/ Call_expand_wildcards

CallSpec == CallInit /\ [][CallNext]_vars

\* ------------------------------------------------------------------------
\* Observations used by the properties
\* ------------------------------------------------------------------------
\* the for loop has run off the end of the pieces of a line
LineDone == pc = "loop" /\ pieces # <<>> /\ i >= piece_count

\* process_piece is running on pieces[i], or ended the process there
InPiece == pc \in {"wait", "fork1", "fork2", "pclose", "pwait1", "pwait2", "pfree",
                   "exited", "aborted"}

\* piece k (0-based) was handed to process_piece
Executed(k) ==
    \/ \E p \in 1..Len(log) : log[p].idx = k /\ log[p].seg.kind # "empty"
    \/ InPiece /\ i = k

\* process_piece returned st for piece k
Returned(k, st) ==
    \E p \in 1..Len(log) : log[p].idx = k /\ log[p].seg.kind # "empty" /\ log[p].status = st

\* process_piece returned for piece k
ReturnedAny(k) ==
    \E p \in 1..Len(log) : log[p].idx = k /\ log[p].seg.kind # "empty"

\* process_piece returned a non-zero status for piece k
Failed(k) ==
    \E p \in 1..Len(log) :
        log[p].idx = k /\ log[p].seg.kind # "empty" /\ log[p].status # 0

\* the piece the loop turns to after the one logged at position p: the index
\* of the next log entry, or the loop index when p is the last entry
NextReached(p) == IF p < Len(log) THEN log[p + 1].idx ELSE i

\* the status has come back but the skip rule has not been applied yet
Pending(p) == p = Len(log) /\ pc = "after"

\* (C1) For a line `a && b` with a and b non-empty, b is executed only if a
\* returned status 0, and once the line is done, a having returned 0 means b
\* was executed; after any other status of a (1, 127) b is not executed.
FormAnd ==
    /\ Len(pieces) = 2 /\ sep_types = <<1, 0>>
    /\ pieces[1] # <<>> /\ pieces[2] # <<>>

C1_AndRunsIffSuccess ==
    FormAnd =>
        /\ Executed(1) => Returned(0, 0)
        /\ LineDone /\ Returned(0, 0) => Executed(1)
        /\ Failed(0) => ~Executed(1)

C1_Witness ==
    /\ FormAnd /\ LineDone
    /\ Returned(0, EXEC_FAILED) /\ ~Executed(1)

\* (C2) After an executed segment that returned a non-zero status and is
\* followed by `&&`, no segment up to and including the first later one that
\* is followed by `;` or ends the line is reached, and the loop goes on with
\* the segment right after it (or ends, when there is none).
ChainEnd(k) ==
    CHOOSE m \in (k + 1)..(piece_count - 1) :
        /\ sep_types[m + 1] = 0 \/ m = piece_count - 1
        /\ \A q \in (k + 1)..(m - 1) : sep_types[q + 1] = 1

C2_FailedChainSkipped ==
    \A p \in 1..Len(log) :
        LET k == log[p].idx
        IN  (/\ log[p].seg.kind # "empty" /\ log[p].status # 0
             /\ k < piece_count - 1 /\ sep_types[k + 1] = 1)
            => /\ \A m \in (k + 1)..ChainEnd(k) :
                    /\ ~Executed(m)
                    /\ \A q \in 1..Len(log) : log[q].idx # m
               /\ Pending(p) \/ NextReached(p) = ChainEnd(k) + 1

C2_Witness ==
    /\ Len(pieces) = 4 /\ sep_types = <<1, 1, 0, 0>>
    /\ \A k \in 1..4 : pieces[k] # <<>>
    /\ LineDone
    /\ Len(log) = 2 /\ log[1].idx = 0 /\ log[1].status # 0
    /\ log[2].idx = 3 /\ log[2].seg.kind = "external"

\* (C3) A segment followed by `;` is followed by the next segment whatever
\* status it returned, and segments are reached in their order in the line;
\* so in `a ; b` both run, a first.
C3_SemicolonAlwaysContinues ==
    /\ \A p \in 1..Len(log) :
        LET k == log[p].idx
        IN  (k < piece_count - 1 /\ sep_types[k + 1] = 0)
            => Pending(p) \/ NextReached(p) = k + 1
    /\ \A p, q \in 1..Len(log) : p < q => log[p].idx < log[q].idx
    /\ (Len(pieces) = 2 /\ sep_types = <<0, 0>> /\ pieces[1] # <<>> /\ pieces[2] # <<>>)
        => /\ Executed(1) => ReturnedAny(0)
           /\ LineDone => Executed(0) /\ Executed(1)

C3_Witness ==
    /\ Len(pieces) = 2 /\ sep_types = <<0, 0>>
    /\ pieces[1] # <<>> /\ pieces[2] # <<>>
    /\ LineDone
    /\ Returned(0, EXEC_FAILED) /\ Executed(1)

\* (C4) Every separator the splitter cuts at lies outside double quotes: no
\* cut position is preceded by an odd number of double-quote characters.
InQuotes(l, p) == Cardinality({q \in 1..(p - 1) : l[q] = QUOTE}) % 2 = 1

C4_SeparatorsOutsideQuotes == \A p \in cuts : ~InQuotes(line, p)

\* (C5) A segment with a pipe and, on either side of it, a redirection
\* operator with a target returns a failing status, reports Invalid Command
\* and spawns no child.
HasRedirectionTarget(k) ==
    LET pos == ScanTo(pieces[k + 1], 1, {"|"})
        l == trim(SubSeq(pieces[k + 1], 1, pos - 1))
        r == trim(SubSeq(pieces[k + 1], pos + 1, Len(pieces[k + 1])))
    IN  pos <= Len(pieces[k + 1]) /\ Targets(l) \cup Targets(r) # {}

C5_PipeWithRedirectionRejected ==
    /\ \A p \in 1..Len(log) :
        (log[p].seg.piped /\ HasRedirectionTarget(log[p].idx))
        => /\ log[p].status # 0
           /\ log[p].seg.msgs >= 1
           /\ log[p].seg.spawned = 0
    /\ pc = "aborted" => ~HasRedirectionTarget(i)

\* (C6) When execute_pipe returns with both children spawned, both have
\* terminated and been waited for, and the status is the right child's exit
\* code if it exited and 1 otherwise, whatever the left child did and
\* whichever child terminated first.
BothSpawned == seg.kind = "pipeline" /\ seg.p1 # 0 /\ seg.p2 # 0

C6_PipelineStatusIsRightChild ==
    (pc = "pfree" /\ BothSpawned) =>
        /\ \A c \in procs : c.pid \notin {seg.p1, seg.p2}
        /\ seg.w1.how \in {"exited", "signaled"}
        /\ seg.w2.how \in {"exited", "signaled"}
        /\ seg.ret = IF seg.w2.how = "exited" THEN seg.w2.code ELSE 1

C6_Witness ==
    /\ pc = "pfree" /\ BothSpawned
    /\ seg.w1 = [how |-> "exited", code |-> EXEC_FAILED]
    /\ seg.w2 = [how |-> "signaled", code |-> 0]
    /\ seg.ret = 1

\* (C7) The history buffer holds the most recent min(k, HISTORY_MAX) of the
\* k lines read whose trimmed text is not empty, trimmed, one entry per
\* line, in the order read, and never more than HISTORY_MAX entries.
NonBlank(l) == \E q \in 1..Len(l) : ~isspace(l[q])
Kept == SelectSeq(submitted, NonBlank)
MostRecent(s, n) == SubSeq(s, Len(s) - n + 1, Len(s))

C7_HistoryKeepsMostRecent ==
    pc # "exited" =>
        /\ Len(history) <= HISTORY_MAX
        /\ Len(history) = (IF Len(Kept) < HISTORY_MAX THEN Len(Kept) ELSE HISTORY_MAX)
        /\ \A q \in 1..Len(history) :
            history[q] = trim(MostRecent(Kept, Len(history))[q])

C7_Witness ==
    /\ pc = "loop"
    /\ Len(Kept) > HISTORY_MAX
    /\ Len(history) = HISTORY_MAX
    /\ \E q \in 1..Len(history) : Len(split_by_separators(history[q]).cmds) > 1

\* (C8) history N with 1 <= N <= c prints the last N of the c entries,
\* oldest first; history without argument, with N <= 0 or with N > c prints
\* all c entries; the built-in returns 0 and leaves the buffer as it was.
HistoryPrinted ==
    pc # "exited" => \A p \in 1..Len(log) :
        LET e == log[p]
            c == Len(history)
            argv == tokenize_args(pieces[e.idx + 1])
            N == IF Len(argv) = 1 THEN 0 ELSE e.seg.n
        IN  e.seg.kind = "history" =>
                /\ e.status = 0
                /\ (1 <= N /\ N <= c) =>
                        /\ Len(e.seg.out) = N
                        /\ \A q \in 1..N : e.seg.out[q] = history[c - N + q]
                /\ (N <= 0 \/ N > c) => e.seg.out = history

C8_HistoryListing ==
    /\ []HistoryPrinted
    /\ [][(pc = "loop" /\ pc' = "after" /\ seg'.kind = "history")
            => history' = history]_vars

C8_Witness ==
    /\ Len(history) = 2
    /\ \E p \in 1..Len(log) :
        /\ log[p].seg.kind = "history" /\ log[p].seg.n = 1
        /\ log[p].seg.out = <<history[2]>>

\* (C9) Once the line source has reported end of input, the interpreter has
\* left its main loop.
C9_EndOfInputExits == eof => pc = "exited"

\* (C10) A segment that fails with a missing redirection target, a target
\* that cannot be opened or a pipe combined with a redirection, piped or not,
\* writes Invalid Command, returns a non-zero status and leaves the
\* interpreter running.
LocalErrors == {"syntax", "open", "combo"}

C10_LocalErrorsReported ==
    /\ \A p \in 1..Len(log) :
        log[p].seg.err \in LocalErrors
        => log[p].seg.msgs >= 1 /\ log[p].status # 0
    /\ pc \in {"exited", "aborted"} => seg.err \notin LocalErrors

\* (C11) An external command of a non-piped segment returns only once its
\* child has terminated and has been waited for; the status is the child's
\* exit code, or 1 for a child that did not exit; a child that cannot execute
\* its program exits with 127, which is the segment's status, and the
\* interpreter goes on to the sequencer's next step.
ExternalReturns ==
    /\ pc = "wait" => \E c \in procs : c.pid = seg.pid
    /\ (pc = "after" /\ seg.kind = "external" /\ seg.spawned = 1) =>
            \A c \in procs : c.pid # seg.pid
    /\ \A p \in 1..Len(log) :
        LET e == log[p]
        IN  (e.seg.kind = "external" /\ e.seg.spawned = 1) =>
                /\ e.seg.w1.how \in {"exited", "signaled"}
                /\ e.seg.w1.how = "exited" => e.status = e.seg.w1.code
                /\ e.seg.w1.how = "signaled" => e.status = 1
                /\ e.seg.w1 = WaitStatus("noexec") =>
                        e.status = EXEC_FAILED /\ e.status # 0

C11_ExternalStatus ==
    /\ []ExternalReturns
    /\ [][(pc = "wait" /\ pc' # "wait") => (Terminated(seg.pid) /\ pc' = "after")]_vars

C11_Witness ==
    /\ FormAnd /\ LineDone /\ Len(log) = 1
    /\ log[1].seg.kind = "external" /\ log[1].seg.w1 = WaitStatus("noexec")
    /\ log[1].seg.msgs >= 1 /\ log[1].status = EXEC_FAILED
    /\ procs = {}

\* (C12) While the current line is made only of `;`, `&&` and whitespace, the
\* interpreter is at the prompt or in the sequencer's loop, every segment the
\* loop has passed was an empty one (status 0, no message), and no step
\* spawns a process or opens a descriptor; the loop ends at the prompt.
SepChars == {";", "&"} \cup WHITESPACE

\* every character is a separator character and `&` comes in pairs
OnlySeparators(l) ==
    /\ \A k \in 1..Len(l) : l[k] \in SepChars
    /\ \A a \in 1..Len(l), b \in 1..Len(l) :
        (/\ a <= b
         /\ \A k \in a..b : l[k] = "&"
         /\ a = 1 \/ l[a - 1] # "&"
         /\ b = Len(l) \/ l[b + 1] # "&")
        => (b - a + 1) % 2 = 0

Pids(ps) == {c.pid : c \in ps}

SeparatorLine ==
    (line # <<>> /\ OnlySeparators(line)) =>
        /\ pc = "loop"
        /\ seg.kind = "none" /\ seg.spawned = 0
        /\ \A p \in 1..Len(log) :
            /\ log[p].seg.kind = "empty" /\ log[p].status = 0
            /\ log[p].seg.msgs = 0 /\ log[p].seg.perrors = 0

C12_SeparatorLinesRunNothing ==
    /\ []SeparatorLine
    /\ [][(\/ line # <<>> /\ OnlySeparators(line)
           \/ pc = "read" /\ stdin # <<>> /\ OnlySeparators(Head(stdin)))
          => /\ pc' \in {"read", "loop"}
             /\ Pids(procs') \subseteq Pids(procs)
             /\ open_fds' = open_fds /\ cwd' = cwd
             /\ pc' = "read" => stdin' # stdin \/ i >= piece_count]_vars

C12_Witness ==
    /\ line # <<>> /\ OnlySeparators(line)
    /\ LineDone /\ Len(log) >= 2

\* (C13) The interpreter ends with exit(0) only in a non-piped segment whose
\* first argument is exit, reached by the sequencer's rule (not in a chain
\* skipped after a failure); from then on it executes nothing and reads
\* nothing.  A non-piped segment whose first token is exit and whose
\* redirections are well formed and can be opened never returns to the
\* sequencer.
FirstToken(k) ==
    LET t == tokenize_args(pieces[k + 1])
    IN  IF t = <<>> THEN <<>> ELSE t[1]

IsExitPiece(k) == ~strchr(pieces[k + 1], "|") /\ FirstToken(k) = T_exit

ExitEndsInterpreter ==
    /\ pc = "exited" =>
        /\ seg.kind = "exit" /\ IsExitPiece(i)
        /\ \A p \in 1..Len(log) : log[p].idx < i
        /\ i = 0 \/ sep_types[i] = 0 \/ (log # <<>> /\ Last(log).status = 0)
    /\ \A p \in 1..Len(log) :
        (log[p].seg.kind # "empty" /\ IsExitPiece(log[p].idx))
        => log[p].seg.err \in {"syntax", "open"}

C13_ExitTerminates ==
    /\ []ExitEndsInterpreter
    /\ [][pc = "exited" =>
            UNCHANGED <<stdin, eof, pc, line, pieces, i, last_status, log,
                        submitted, history, cwd, open_fds>>]_vars

C13_Witness ==
    /\ pc = "exited" /\ i = 1 /\ Len(pieces) = 3 /\ Len(log) = 1
    /\ stdin # <<>>

\* (C13, as stated) No non-piped segment whose first token is exit returns to
\* the sequencer.
C13_AnyExitSegmentTerminates ==
    \A p \in 1..Len(log) :
        ~(log[p].seg.kind # "empty" /\ IsExitPiece(log[p].idx))

\* (C14) The tokens of every line are those of a tokenizer in which every
\* double quote, at the start or in the middle of a token, toggles quote
\* mode: whitespace in quote mode belongs to the token, whitespace outside
\* ends it, the quotes are dropped, and an open quote ends with the line.
RECURSIVE RefTokenizeFrom(_, _, _, _, _, _)
RefTokenizeFrom(l, p, inq, intok, cur, out) ==
    IF Len(out) >= MAXARGS THEN out
    ELSE IF p > Len(l) THEN (IF intok THEN Append(out, cur) ELSE out)
    ELSE IF l[p] = QUOTE THEN RefTokenizeFrom(l, p + 1, ~inq, TRUE, cur, out)
    ELSE IF isspace(l[p]) /\ ~inq
         THEN RefTokenizeFrom(l, p + 1, FALSE, FALSE, <<>>,
                              IF intok THEN Append(out, cur) ELSE out)
    ELSE RefTokenizeFrom(l, p + 1, inq, TRUE, Append(cur, l[p]), out)

RefTokenize(l) == RefTokenizeFrom(l, 1, FALSE, FALSE, <<>>, <<>>)

C14_TokenizerMatchesReference ==
    (call.fn = "tokenize_args" /\ call.done) => call.ret = RefTokenize(call.arg)

\* (C15) For every argument list whose full expansion has at most MAXARGS
\* entries, the expander's output is the concatenation, in the order of the
\* tokens, of: the sorted matches of a token that has `*`, `?` or `[` and
\* matches something; the token itself when it has one and matches nothing;
\* the token itself when it has none.
HasMeta(tok) == \E k \in 1..Len(tok) : tok[k] \in {"*", "?", "["}

Matches(tok) == {name \in Range(Directory) : fnmatch(tok, name)}

\* the names of S in the sorted order of the directory listing
Sorted(S) == SelectSeq(Directory, LAMBDA name : name \in S)

RefExpandToken(tok) ==
    IF HasMeta(tok) /\ Matches(tok) # {} THEN Sorted(Matches(tok)) ELSE <<tok>>

RECURSIVE RefExpand(_)
RefExpand(argv) ==
    IF argv = <<>> THEN <<>>
    ELSE RefExpandToken(Head(argv)) \o RefExpand(Tail(argv))

Expanded == call.fn = "expand_wildcards" /\ call.done

C15_ExpansionWithinCap ==
    (Expanded /\ Len(RefExpand(call.arg)) <= MAXARGS) =>
        call.ret = RefExpand(call.arg)

C15_Witness ==
    /\ Expanded
    /\ call.arg = << <<"a">>, <<"*">>, <<"x", "*">> >>
    /\ call.ret = << <<"a">>, <<"f">>, <<"g">>, <<"h">>, <<"x", "*">> >>

\* (C15, as stated) For every argument list the expander's output is that
\* concatenation.
C15_ExpansionOfEveryList == Expanded => call.ret = RefExpand(call.arg)

\* (C16) When the processing of a segment has returned, no descriptor the
\* redirection parser opened for that segment is open in the interpreter.
C16_RedirectionsClosedAtReturn == pc = "after" => seg.opened \cap open_fds = {}

\* (C17) When the processing of a segment has returned, no child spawned for
\* it is left, running or not yet waited for, and the interpreter holds no
\* end of the segment's pipe.
SegmentPids == {seg.pid, seg.p1, seg.p2} \ {0}

C17_ChildrenWaitedAtReturn ==
    pc = "after" =>
        /\ Pids(procs) \cap SegmentPids = {}
        /\ seg.pipe \cap open_fds = {}

\* (C19) The tokenizer returns at most MAXARGS tokens and its last store, the
\* sentinel, is inside the caller's array of MAXARGS slots; the expander
\* returns at most MAXARGS entries and its last store is inside its array of
\* MAXARGS + 1 slots.
C19_ArgumentArraysInBounds ==
    call.done =>
        /\ call.fn = "tokenize_args" =>
                Len(call.ret) <= MAXARGS /\ call.last < ArgvTmpSlots
        /\ call.fn = "expand_wildcards" =>
                Len(call.ret) <= MAXARGS /\ call.last < OutSlots

\* (C20) The two pointers a piped segment passes to free are the ones strndup
\* and strdup returned, so the release never aborts the interpreter.
C20_ReleasesAllocatedPointers ==
    /\ pc = "pfree" => FreeIsValid
    /\ pc # "aborted"

\* (C18) The parent waits only with both children spawned and both its ends
\* of the pipe closed, so that from then on the write end is held by nobody
\* but the running left child; and if the left program terminates and the
\* right program terminates on end of file, a pipeline whose two children
\* are spawned returns.
PipeClosedBeforeWait ==
    pc \in {"pwait1", "pwait2"} =>
        /\ seg.spawned = 2 /\ seg.p1 # 0 /\ seg.p2 # 0 /\ seg.p1 # seg.p2
        /\ seg.pipe # {} /\ seg.pipe \cap open_fds = {}
        /\ WriteEndHolders \subseteq {"left"}
        /\ ~Running(seg.p1) => EofVisible
        /\ pc = "pwait2" => EofVisible

C18_PipelineReturns ==
    /\ []PipeClosedBeforeWait
    /\ [][pc = "fork2" => pc' \in {"fork2", "pclose", "pfree"}]_vars
    /\ [][pc = "pclose" => pc' \in {"pclose", "pwait1"}]_vars
    /\ (pc = "pclose") ~> (pc = "pfree")

C18_Witness ==
    /\ pc = "pfree" /\ seg.spawned = 2
    /\ seg.w1 = WaitStatus("exit0") /\ seg.w2 = WaitStatus("exit0")
    /\ procs = {}

\* (C21) A segment is handed to the pipeline executor only if it has a `|`
\* outside double quotes: a `|` between quotes is text of an argument.
PipeOutsideQuotes(cmd) ==
    \E q \in 1..Len(cmd) : cmd[q] = "|" /\ ~InQuotes(cmd, q)

C21_QuotedPipeIsLiteral ==
    /\ (seg.piped /\ pc \notin {"read", "loop"}) => PipeOutsideQuotes(pieces[i + 1])
    /\ \A p \in 1..Len(log) :
        log[p].seg.piped => PipeOutsideQuotes(pieces[log[p].idx + 1])

====
